---- MODULE Spec2Model ----
(***************************************************************************)
(* State-machine model of bot_saham.py: the /webhook handler with its      *)
(* rate limiter, TTL cache, lazily built TradingView client, the two       *)
(* fetch operations and the reply formatting.                              *)
(*                                                                         *)
(* Every webhook request is served by its own thread (Flask's threaded     *)
(* server), so a request r \in Requests is one invocation of webhook()     *)
(* with its own locals and program counter.  The steps of a request are    *)
(* cut where the code reads or writes the module globals.  The variable    *)
(* env holds what surrounds the process in a run: which messages arrive,   *)
(* how the TradingView client and the gateway answer, and whether the      *)
(* server takes one request at a time.  Each specification fixes env.      *)
(*                                                                         *)
(* Text is a sequence of one-character strings.  time.time() is the        *)
(* variable clock, counted in ticks of 1/TicksPerSecond second.  A float   *)
(* is a record: absent (None), non-finite (inf or nan), or a number kept   *)
(* in thirds (v3 = 3 * value) so that the pivot division by 3 is exact.    *)
(***************************************************************************)
EXTENDS Integers, Sequences, FiniteSets, TLC

\* ------------------------------------------------------------------------
\* Bounds of the model
\* ------------------------------------------------------------------------
\* the clock stops at MaxTime
MaxTime == 6
\* requests served in a run of RateSpec, of CacheSpec, of PathSpec, of Spec,
\* of ConfigSpec, of SrSpec, of ReplySpec, of ParseSpec
RateRequests == 3
CacheRequests == 3
PathRequests == 2
RaceRequests == 2
ConfigRequests == 2
SrRequests == 2
ReplyRequests == 2
ParseRequests == 2
\* the longest text made of the characters of ParseChars
ParseLen == 2

\* ------------------------------------------------------------------------
\* Configuration (module constants of bot_saham.py)
\* ------------------------------------------------------------------------
TicksPerSecond == 2
\* RATE_LIMIT_SECONDS and CACHE_TTL_SECONDS are read from the environment
\* (env_int); the modelled deployment sets both to 2 seconds.
RATE_LIMIT_SECONDS == 2
CACHE_TTL_SECONDS == 2
SR_BARS == 3
TV_BARS == 2
\* TV_INTERVAL is env_str("TV_INTERVAL", "1d"): the default, and a value of
\* the environment that INTERVAL_MAP does not know (fetch_quote then queries
\* the daily interval)
TV_INTERVAL == <<"1", "d">>
Intervals == {TV_INTERVAL, <<"s", "r", ":", "1", "d", ":", "3">>}
IHSG_SYMBOL == <<"C", "O", "M", "P", "O", "S", "I", "T", "E">>
IDX == <<"I", "D", "X">>
FOOTER == "© Haris Stockbit"

\* ------------------------------------------------------------------------
\* Strings
\* ------------------------------------------------------------------------
LowerLetters ==
    {"a", "b", "c", "d", "e", "f", "g", "h", "i", "j", "k", "l", "m",
     "n", "o", "p", "q", "r", "s", "t", "u", "v", "w", "x", "y", "z"}
DigitChars == {"0", "1", "2", "3", "4", "5", "6", "7", "8", "9"}
LowerSeq == <<"a", "b", "c", "d", "e", "f", "g", "h", "i", "j", "k", "l", "m",
              "n", "o", "p", "q", "r", "s", "t", "u", "v", "w", "x", "y", "z">>
UpperSeq == <<"A", "B", "C", "D", "E", "F", "G", "H", "I", "J", "K", "L", "M",
              "N", "O", "P", "Q", "R", "S", "T", "U", "V", "W", "X", "Y", "Z">>

LowerChar(c) ==
    IF \E i \in 1..26 : UpperSeq[i] = c
    THEN LowerSeq[CHOOSE i \in 1..26 : UpperSeq[i] = c]
    ELSE c
UpperChar(c) ==
    IF \E i \in 1..26 : LowerSeq[i] = c
    THEN UpperSeq[CHOOSE i \in 1..26 : LowerSeq[i] = c]
    ELSE c
Lower(s) == [i \in 1..Len(s) |-> LowerChar(s[i])]
Upper(s) == [i \in 1..Len(s) |-> UpperChar(s[i])]

IsSpace(c) == c \in {" ", "\t", "\n"}

RECURSIVE LStrip(_)
LStrip(s) == IF s # <<>> /\ IsSpace(Head(s)) THEN LStrip(Tail(s)) ELSE s
RECURSIVE RStrip(_)
RStrip(s) ==
    IF s # <<>> /\ IsSpace(s[Len(s)]) THEN RStrip(SubSeq(s, 1, Len(s) - 1)) ELSE s
Strip(s) == LStrip(RStrip(s))

StartsWith(s, p) == Len(s) >= Len(p) /\ SubSeq(s, 1, Len(p)) = p
EndsWith(s, p) == Len(s) >= Len(p) /\ SubSeq(s, Len(s) - Len(p) + 1, Len(s)) = p

\* \w of the regular expressions
IsWordChar(c) == c \in LowerLetters \cup DigitChars \cup {"_"}
\* the character class [a-z0-9\\.] : the raw string keeps both backslashes,
\* so the class holds a-z, 0-9, the backslash and the dot
IsSymbolChar(c) == c \in LowerLetters \cup DigitChars \cup {"\\", "."}

\* length of the longest prefix of s made of symbol characters
RECURSIVE SymbolRun(_)
SymbolRun(s) ==
    IF s # <<>> /\ IsSymbolChar(Head(s)) THEN 1 + SymbolRun(Tail(s)) ELSE 0

NoCommand == [command |-> "None", symbol |-> <<>>]

parse_command(text) ==
    LET cleaned == Strip(text)
        lower == Lower(cleaned)
        ihsg == <<"!", "i", "h", "s", "g">>
        rest == Tail(lower)
        n == SymbolRun(rest)
        symbol == Upper(SubSeq(rest, 1, n))
    IN  IF StartsWith(lower, <<"!", "h", "e", "l", "p">>)
        THEN [command |-> "help", symbol |-> <<>>]
        ELSE IF StartsWith(lower, ihsg)
                /\ (Len(lower) = Len(ihsg) \/ ~IsWordChar(lower[Len(ihsg) + 1]))
        THEN [command |-> "ihsg", symbol |-> <<>>]
        ELSE IF lower # <<>> /\ Head(lower) = "$" /\ n >= 1
        THEN [command |-> "quote",
              symbol |-> IF EndsWith(symbol, <<".", "J", "K">>)
                         THEN SubSeq(symbol, 1, Len(symbol) - 3)
                         ELSE symbol]
        ELSE NoCommand

\* str() of an integer
DigitSeq == <<"0", "1", "2", "3", "4", "5", "6", "7", "8", "9">>
RECURSIVE NatStr(_)
NatStr(n) == IF n < 10 THEN <<DigitSeq[n + 1]>>
             ELSE NatStr(n \div 10) \o <<DigitSeq[(n % 10) + 1]>>
IntStr(n) == IF n < 0 THEN <<"-">> \o NatStr(-n) ELSE NatStr(n)

\* ------------------------------------------------------------------------
\* Cache keys
\* ------------------------------------------------------------------------
\* f"{exchange}:{symbol}:{TV_INTERVAL}"
QuoteKey(exchange, symbol, interval) ==
    exchange \o <<":">> \o symbol \o <<":">> \o interval
\* f"{exchange}:{symbol}:sr:1d:{SR_BARS}"
SrKey(exchange, symbol) ==
    exchange \o <<":">> \o symbol \o <<":", "s", "r", ":", "1", "d", ":">> \o IntStr(SR_BARS)

\* ------------------------------------------------------------------------
\* Floats
\* ------------------------------------------------------------------------
NoneF == [k |-> "none", v3 |-> 0]
NonFinite == [k |-> "inf", v3 |-> 0]
Num3(x) == [k |-> "num", v3 |-> x]
IsNum(f) == f.k = "num"

\* a cell of the upstream data frame
RawMissing == [k |-> "missing", v |-> 0]
RawNaN == [k |-> "nan", v |-> 0]
RawInf == [k |-> "inf", v |-> 0]
RawNum(i) == [k |-> "num", v |-> i]

\* float(value) raises TypeError or ValueError, or the number is NaN: None;
\* an infinity is a float that is not NaN and is returned as it is
safe_float(value) ==
    CASE value.k = "num" -> Num3(3 * value.v)
      [] value.k = "inf" -> NonFinite
      [] OTHER -> NoneF

\* x - y, x + y on floats that are not None
FSub(x, y) == IF IsNum(x) /\ IsNum(y) THEN Num3(x.v3 - y.v3) ELSE NonFinite

\* the nearest integer to n / d (d > 0), ties to even
RoundDiv(n, d) ==
    LET q == n \div d
        rem == n - q * d
    IN  IF 2 * rem < d THEN q
        ELSE IF 2 * rem > d THEN q + 1
        ELSE IF q % 2 = 0 THEN q ELSE q + 1

\* f"{x:.2f}" of the number h / 100
Hundredths(h) ==
    LET a == IF h < 0 THEN -h ELSE h
        cents == a % 100
    IN  (IF h < 0 THEN <<"-">> ELSE <<>>) \o NatStr(a \div 100) \o <<".">>
        \o <<DigitSeq[(cents \div 10) + 1], DigitSeq[(cents % 10) + 1]>>

Raised == [raises |-> TRUE, text |-> <<>>]
Text(t) == [raises |-> FALSE, text |-> t]

\* int(value) raises OverflowError on an infinity and ValueError on a NaN.
\* The model's numbers stay below 1000, so no thousands separator appears.
format_number(value) ==
    CASE value.k = "none" -> Text(<<"-">>)
      [] value.k = "inf" -> Raised
      [] OTHER ->
            IF value.v3 % 3 = 0
            THEN Text(IntStr(value.v3 \div 3))
            ELSE Text(Hundredths(RoundDiv(100 * value.v3, 3)))

\* pct is (change / open_price) * 100, kept as the pair change, open_price
format_change(change, open_price, hasPct) ==
    IF change.k = "none" \/ ~hasPct
    THEN Text(<<"-">>)
    ELSE LET sign == IF change.k = "num" /\ change.v3 >= 0 THEN <<"+">> ELSE <<>>
             num == format_number(change)
             o == open_price.v3
             pct == IF o > 0 THEN RoundDiv(10000 * change.v3, o)
                    ELSE RoundDiv(-10000 * change.v3, -o)
         IN  IF num.raises THEN Raised
             ELSE Text(sign \o num.text \o <<" (">> \o sign \o Hundredths(pct) \o <<"%)">>)

\* str(last.name) and format_time_value(bars.index[idx]) of row number i of
\* a daily frame: "2024-01-0i 00:00:00"
format_time_value(i) == <<"2024-01-0">> \o NatStr(i) \o <<" 00:00:00">>

\* ------------------------------------------------------------------------
\* Upstream responses of tv.get_hist
\* ------------------------------------------------------------------------
Bar(o, h, l, c) == [open |-> o, high |-> h, low |-> l, close |-> c, volume |-> RawNum(4)]
NormalBar == Bar(RawNum(2), RawNum(3), RawNum(2), RawNum(3))
\* no usable open and high
NaNBar == Bar(RawMissing, RawNaN, RawNum(2), RawNum(3))
\* an infinite close
InfBar == Bar(RawNum(2), RawNum(3), RawNum(2), RawInf)
\* high equal to low
FlatBar == Bar(RawNum(2), RawNum(2), RawNum(2), RawNum(2))
\* a close below the low
OutsideBar == Bar(RawNum(4), RawNum(5), RawNum(4), RawNum(1))

\* what tv.get_hist does: it raises, or answers with a frame (<<>> is None
\* or an empty frame)
HistRaise == [raises |-> TRUE, bars |-> <<>>]
HistFrame(f) == [raises |-> FALSE, bars |-> f]

Max(a, b) == IF a > b THEN a ELSE b

\* ------------------------------------------------------------------------
\* Payloads computed by fetch_quote and fetch_sr_levels
\* ------------------------------------------------------------------------
\* A payload carries q, the query it was computed for.  q is not part of the
\* program's dictionary; it records the origin of the payload and is read
\* by the properties only.
Query(kind, exchange, symbol) == [kind |-> kind, exchange |-> exchange, symbol |-> symbol]

NoData == [kind |-> "None"]

\* d.get(f) of a payload: None when the dictionary has no key f
Get(d, f) == IF f \in DOMAIN d THEN d[f] ELSE NoneF

QuoteData(bars, q) ==
    LET n == Len(bars)
        last == bars[n]
    IN  [kind |-> "quote",
         open |-> safe_float(last.open),
         high |-> safe_float(last.high),
         low |-> safe_float(last.low),
         close |-> safe_float(last.close),
         volume |-> safe_float(last.volume),
         timestamp |-> format_time_value(n),
         prev_close |-> IF n > 1 THEN safe_float(bars[n - 1].close) ELSE NoneF,
         q |-> q]

\* the row fetch_sr_levels reads: idx = -2 if len(bars) > 1 else -1
SrIndex(bars) == IF Len(bars) > 1 THEN Len(bars) - 1 ELSE Len(bars)

SrInvalid(bars) ==
    LET bar == bars[SrIndex(bars)]
        high == safe_float(bar.high)
        low == safe_float(bar.low)
        close == safe_float(bar.close)
    IN  high.k = "none" \/ low.k = "none" \/ close.k = "none" \/ high = low

\* the levels in thirds; one non-finite operand makes every level inf or nan
SrData(bars, q) ==
    LET idx == SrIndex(bars)
        bar == bars[idx]
        high == safe_float(bar.high)
        low == safe_float(bar.low)
        close == safe_float(bar.close)
        finite == IsNum(high) /\ IsNum(low) /\ IsNum(close)
        h == high.v3
        l == low.v3
        pivot == (high.v3 + low.v3 + close.v3) \div 3
        L(x) == IF finite THEN Num3(x) ELSE NonFinite
    IN  [kind |-> "sr",
         s1 |-> L(2 * pivot - h),
         s2 |-> L(pivot - (h - l)),
         s3 |-> L(l - 2 * (h - pivot)),
         r1 |-> L(2 * pivot - l),
         r2 |-> L(pivot + (h - l)),
         r3 |-> L(h + 2 * (pivot - l)),
         time |-> format_time_value(idx),
         q |-> q]

\* ------------------------------------------------------------------------
\* Reply texts: a text is a sequence of lines, a line a sequence of strings
\* ------------------------------------------------------------------------
\* the lines of the support/resistance block, without their pictographs
SrBlock(symbol, sr) ==
    LET s1 == format_number(Get(sr, "s1"))
        s2 == format_number(Get(sr, "s2"))
        s3 == format_number(Get(sr, "s3"))
        r1 == format_number(Get(sr, "r1"))
        r2 == format_number(Get(sr, "r2"))
        r3 == format_number(Get(sr, "r3"))
        time == IF "time" \in DOMAIN sr THEN sr.time ELSE <<"-">>
    IN  IF s1.raises \/ s2.raises \/ s3.raises \/ r1.raises \/ r2.raises \/ r3.raises
        THEN Raised
        ELSE Text(<< <<>>,
                     <<"SUPPORT & RESISTANCE - ">> \o symbol \o <<" (1 Day)">>,
                     <<>>,
                     <<"Support">>,
                     <<"S1: ">> \o s1.text,
                     <<"S2: ">> \o s2.text,
                     <<"S3: ">> \o s3.text,
                     <<>>,
                     <<"Resistance">>,
                     <<"R1: ">> \o r1.text,
                     <<"R2: ">> \o r2.text,
                     <<"R3: ">> \o r3.text,
                     <<>>,
                     <<"Time ">> \o time,
                     <<FOOTER>> >>)

\* display = <<>> stands for display=None, sr = NoData for sr=None
format_quote_text(symbol, exchange, data, display, sr) ==
    LET close == Get(data, "close")
        open_price == Get(data, "open")
        noChange == close.k = "none" \/ open_price.k = "none"
        change == IF noChange THEN NoneF ELSE FSub(close, open_price)
        hasPct == ~noChange /\ open_price # Num3(0)
        header == IF display # <<>> THEN display
                  ELSE symbol \o <<" (">> \o exchange \o <<")">>
        c == format_number(close)
        ch == format_change(change, open_price, hasPct)
        o == format_number(Get(data, "open"))
        h == format_number(Get(data, "high"))
        l == format_number(Get(data, "low"))
        v == format_number(Get(data, "volume"))
        time == IF "timestamp" \in DOMAIN data
                THEN << <<"Time: ">> \o data.timestamp >>
                ELSE <<>>
        block == IF sr.kind # "None" THEN SrBlock(symbol, sr) ELSE Text(<<>>)
    IN  IF c.raises \/ ch.raises \/ o.raises \/ h.raises \/ l.raises \/ v.raises
           \/ block.raises
        THEN Raised
        ELSE Text(<< header,
                     <<"Close: ">> \o c.text,
                     <<"Change: ">> \o ch.text,
                     <<"O/H/L: ">> \o o.text \o <<" / ">> \o h.text \o <<" / ">> \o l.text,
                     <<"Volume: ">> \o v.text >>
                  \o time \o block.text)

help_text ==
    << <<"Panduan cepat:">>,
       <<"1) Kirim kode saham dengan format: $KODE (contoh: $BBCA)">>,
       <<"2) Lihat IHSG: !ihsg">>,
       <<"3) Lihat bantuan: !help">>,
       <<>>,
       <<"Catatan:">>,
       <<"- Data TradingView timeframe 1D">>,
       <<"- Output S/R berbasis pivot harian">> >>

RateLimitText(remaining) ==
    << <<"Mohon tunggu ">> \o IntStr(remaining) \o <<" detik sebelum request lagi.">> >>

\* text.rstrip(): the trailing blank lines go
RECURSIVE RStripText(_)
RStripText(t) ==
    IF t # <<>> /\ t[Len(t)] = <<>> THEN RStripText(SubSeq(t, 1, Len(t) - 1)) ELSE t

TextEndsWithFooter(t) ==
    LET s == RStripText(t)
    IN  s # <<>> /\ s[Len(s)][Len(s[Len(s)])] = FOOTER

\* a send_text that appends the footer without looking at the text
SentTextAlways(text) == RStripText(text) \o << <<>>, <<FOOTER>> >>
\* the text send_text posts to the gateway
SentText(text) ==
    IF text # <<>> /\ ~TextEndsWithFooter(text)
    THEN RStripText(text) \o << <<>>, <<FOOTER>> >>
    ELSE text

\* ------------------------------------------------------------------------
\* Inputs and surroundings
\* ------------------------------------------------------------------------
Chats == {"X", "Y"}

Help == <<"!", "h", "e", "l", "p">>
Ihsg == <<"!", "I", "H", "S", "G", " ", "n", "o", "w">>
Bbca == <<"$", "b", "b", "c", "a">>
\* message texts of inbound events; <<>> is a missing or empty text
Texts ==
    { <<>>, Help, Ihsg, Bbca,
      <<" ", "!", "H", "e", "l", "p", " ">>,
      <<"!", "i", "h", "s", "g", "x">>,
      <<"$", "B", "B", "C", "A", ".", "J", "K">>,
      <<"$", ".", "j", "k">>,
      <<"h", "e", "l", "l", "o">> }

\* texts for parse_command: every text of at most ParseLen characters of
\* ParseChars, and longer ones for each rule
ParseChars == {"$", "a", "B", ".", "\\", " ", "!"}
ParseTexts ==
    UNION { [1..n -> ParseChars] : n \in 0..ParseLen }
    \cup { Help, Ihsg, Bbca,
           <<"!", "H", "E", "L", "P", "m", "e">>,
           <<"!", "h", "e", "l">>,
           <<"!", "i", "h", "s", "g">>,
           <<"!", "i", "h", "s", "g", "x">>,
           <<"!", "i", "h", "s", "g", "_">>,
           <<"!", "i", "h", "s", "g", ".">>,
           <<"$", "B", "B", "C", "A", ".", "J", "K">>,
           <<" ", "$", "b", "b", "c", "a", "\t">>,
           <<"$", "b", "b", "-", "a">>,
           <<"$", "b", "b", "\\", "a">>,
           <<"$", "a", ".", "j", "k", ".", "j", "k">>,
           <<"x", "$", "b", "b", "c", "a">>,
           <<"h", "e", "l", "l", "o">> }

\* TvDatafeed(...) returns a client or raises exc; msg is str(exc), which is
\* empty for exceptions such as TimeoutError() and KeyError()
CtorOk == [ok |-> TRUE, msg |-> ""]
CtorRaise(m) == [ok |-> FALSE, msg |-> m]
AllCtor == {CtorOk, CtorRaise(""), CtorRaise("login failed")}

AllHist == {HistRaise, HistFrame(<<>>), HistFrame(<<NormalBar>>), HistFrame(<<NaNBar>>),
            HistFrame(<<InfBar>>), HistFrame(<<NormalBar, NormalBar>>)}

\* the POST of send_text: answered, answered with a status >= 400, or raising
GatewayOutcomes == {"ok", "http_error", "exception"}

\* every message and every answer of the upstream, one request at a time
PathEnv ==
    [seq |-> TRUE, n |-> PathRequests, interval |-> TV_INTERVAL,
     chats |-> Chats, from_me |-> BOOLEAN,
     texts |-> Texts, ctor |-> AllCtor, hist |-> AllHist, gateway |-> {"ok"}]

\* commands of two conversations against an upstream that works and a
\* gateway that may fail, one request at a time
RateEnv ==
    [seq |-> TRUE, n |-> RateRequests, interval |-> TV_INTERVAL,
     chats |-> Chats, from_me |-> {FALSE},
     texts |-> {Help, Bbca}, ctor |-> {CtorOk}, hist |-> {HistFrame(<<NormalBar>>)},
     gateway |-> GatewayOutcomes]

\* quotes of two conversations against an upstream whose answers change and
\* fail, one request at a time
CacheEnv ==
    [seq |-> TRUE, n |-> CacheRequests, interval |-> TV_INTERVAL,
     chats |-> Chats, from_me |-> {FALSE},
     texts |-> {Ihsg, Bbca}, ctor |-> {CtorOk},
     hist |-> {HistRaise, HistFrame(<<NormalBar>>), HistFrame(<<NormalBar, NormalBar>>)},
     gateway |-> {"ok"}]

\* requests served by concurrent threads
RaceEnv ==
    [seq |-> FALSE, n |-> RaceRequests, interval |-> TV_INTERVAL,
     chats |-> Chats, from_me |-> {FALSE},
     texts |-> {Bbca}, ctor |-> {CtorOk, CtorRaise("login failed")},
     hist |-> {HistFrame(<<NormalBar>>)}, gateway |-> {"ok"}]

\* symbol quotes of one conversation in a process started with the interval i
ConfigEnv(i) ==
    [seq |-> TRUE, n |-> ConfigRequests, interval |-> i,
     chats |-> {"X"}, from_me |-> {FALSE},
     texts |-> {Bbca}, ctor |-> {CtorOk},
     hist |-> {HistFrame(<<NormalBar>>), HistFrame(<<NormalBar, NormalBar>>)},
     gateway |-> {"ok"}]

\* symbol quotes of one conversation against an upstream that answers with
\* one, two or three rows of finite and missing values
SrEnv ==
    [seq |-> TRUE, n |-> SrRequests, interval |-> TV_INTERVAL,
     chats |-> {"X"}, from_me |-> {FALSE},
     texts |-> {Bbca}, ctor |-> {CtorOk},
     hist |-> {HistFrame(<<NormalBar>>), HistFrame(<<NaNBar>>), HistFrame(<<FlatBar>>),
               HistFrame(<<OutsideBar>>), HistFrame(<<NaNBar, NormalBar>>),
               HistFrame(<<NormalBar, NaNBar>>),
               HistFrame(<<OutsideBar, NormalBar, FlatBar>>),
               HistFrame(<<NormalBar, FlatBar, NormalBar>>)},
     gateway |-> {"ok"}]

\* every command of one conversation against a client that may fail to log
\* in and an upstream that raises, answers nothing, or answers with a bar
\* that has or has not a pivot
ReplyEnv ==
    [seq |-> TRUE, n |-> ReplyRequests, interval |-> TV_INTERVAL,
     chats |-> {"X"}, from_me |-> {FALSE},
     texts |-> {Help, Ihsg, Bbca}, ctor |-> {CtorOk, CtorRaise("login failed")},
     hist |-> {HistRaise, HistFrame(<<>>), HistFrame(<<NormalBar>>),
               HistFrame(<<FlatBar>>)},
     gateway |-> {"ok"}]

\* texts of every shape from one conversation against an upstream that works
ParseEnv ==
    [seq |-> TRUE, n |-> ParseRequests, interval |-> TV_INTERVAL,
     chats |-> {"X"}, from_me |-> {FALSE},
     texts |-> ParseTexts, ctor |-> {CtorOk}, hist |-> {HistFrame(<<NormalBar>>)},
     gateway |-> {"ok"}]

\* the requests of the largest run
Requests ==
    1..Max(Max(Max(RateRequests, CacheRequests), Max(PathRequests, RaceRequests)),
           Max(Max(ConfigRequests, SrRequests), Max(ReplyRequests, ParseRequests)))

\* ------------------------------------------------------------------------
\* State
\* ------------------------------------------------------------------------
VARIABLES
    env,              \* the surroundings of the run
    clock,            \* time.time(), in ticks
    rate_limit,       \* dict chat_id -> instant of the last accepted request
    cache,            \* dict key -> [at, data]
    tv_client,        \* <<>> for None, <<h>> for the client built by call h
    tv_client_error,  \* <<>> for None, <<m>> for the message m
    pc,               \* where each request stands in webhook()
    req,              \* text, chat_id, command, symbol of a request being served
    rl,               \* locals of rate_limit_ok
    fs,               \* locals of fetch_quote / fetch_sr_levels
    res,              \* data, error, sr_data of webhook(), bars of fetch_sr_levels
    last_done,        \* what the request that returned last did
    constructs,       \* number of calls of TvDatafeed(...) so far
    ctor_failed,      \* some call of TvDatafeed(...) has raised
    accepted,         \* chat_id -> the instants at which rate_limit_ok allowed
    last_set          \* key -> [at, data] of the latest cache_set(key)

vars == <<env, clock, rate_limit, cache, tv_client, tv_client_error, pc, req, rl,
          fs, res, last_done, constructs, ctor_failed, accepted, last_set>>

globals == <<rate_limit, cache, tv_client, tv_client_error, constructs,
             ctor_failed, accepted, last_set>>

RateLimitTicks == RATE_LIMIT_SECONDS * TicksPerSecond
CacheTtlTicks == CACHE_TTL_SECONDS * TicksPerSecond

\* what webhook() found when it was called: the module globals then
NoBefore == [rate_limit |-> <<>>, cache |-> <<>>, tv_client |-> <<>>,
             tv_client_error |-> <<>>]
NoReq == [chat |-> "", text |-> <<>>, command |-> "None", symbol |-> <<>>,
          before |-> NoBefore]
NoRl == [now |-> 0, last |-> <<>>, ok |-> "None", remaining |-> 0]
NoFs == [fn |-> "None", key |-> <<>>, entry |-> <<>>, tv |-> <<>>]
NoRes == [data |-> NoData, error |-> "", sr_data |-> NoData, sr_error |-> "",
          q_cache |-> "None", sr_cache |-> "None", sr_bars |-> <<>>]
NoneDone == [req |-> NoReq, rl |-> NoRl, res |-> NoRes, sends |-> 0,
             text |-> <<>>, status |-> "None", gateway |-> "None"]

\* the process after import: empty dictionaries, no client, no request yet
InitEnv(e) ==
    /\ env = e
    /\ clock = 1
    /\ rate_limit = <<>>
    /\ cache = <<>>
    /\ tv_client = <<>>
    /\ tv_client_error = <<>>
    /\ pc = [r \in Requests |-> "idle"]
    /\ req = [r \in Requests |-> NoReq]
    /\ rl = [r \in Requests |-> NoRl]
    /\ fs = [r \in Requests |-> NoFs]
    /\ res = [r \in Requests |-> NoRes]
    /\ last_done = NoneDone
    /\ constructs = 0
    /\ ctor_failed = FALSE
    /\ accepted = [c \in Chats |-> <<>>]
    /\ last_set = <<>>

Init == InitEnv(RaceEnv)

\* d[k] = v on a dict, d.pop(k, None)
DictSet(d, k, v) == [x \in DOMAIN d \cup {k} |-> IF x = k THEN v ELSE d[x]]
DictPop(d, k) == [x \in DOMAIN d \ {k} |-> d[x]]

\* ------------------------------------------------------------------------
\* Leaving webhook()
\* ------------------------------------------------------------------------
\* webhook() returns after sends calls of send_text: its locals are gone, and
\* last_done keeps what it did.  Each call of send_text posts once; the
\* gateway answers, answers with an error status, or the POST raises, and
\* send_text logs the failure and returns.
\* a send_text that lets the exception of the POST go on into webhook()
SendTextRaises(g, status) == IF g = "exception" THEN "exception" ELSE status
\* send_text has met the gateway outcome g: the try block logs a status of
\* 400 or more, the handler logs an exception, and webhook() goes on to
\* return jsonify({"status": status})
SendText(g, status) == status

Return(r, reqv, rlv, resv, sends, text, status) ==
    /\ pc' = [pc EXCEPT ![r] = "done"]
    /\ req' = [req EXCEPT ![r] = NoReq]
    /\ rl' = [rl EXCEPT ![r] = NoRl]
    /\ fs' = [fs EXCEPT ![r] = NoFs]
    /\ res' = [res EXCEPT ![r] = NoRes]
    /\ \E g \in IF sends = 0 THEN {"None"} ELSE env.gateway :
         last_done' = [req |-> [reqv EXCEPT !.before = NoBefore],
                       rl |-> rlv, res |-> resv,
                       sends |-> sends, text |-> text,
                       status |-> SendText(g, status), gateway |-> g]

\* send_text(chat_id, text); return jsonify({"status": status})
Reply(r, rlv, resv, text, status) ==
    Return(r, req[r], rlv, resv, 1, SentText(text), status)

\* return jsonify({"status": status}) without a reply, or an exception that
\* leaves webhook() (status "exception": the framework answers 500)
NoReply(r, reqv, rlv, resv, status) ==
    Return(r, reqv, rlv, resv, 0, <<>>, status)

\* message = format_quote_text(...); send_text(chat_id, message); return ok
ReplyQuote(r, resv, formatted) ==
    IF formatted.raises THEN NoReply(r, req[r], rl[r], resv, "exception")
    ELSE Reply(r, rl[r], resv, formatted.text, "ok")

StartFetch(r, fn, key) ==
    /\ pc' = [pc EXCEPT ![r] = "cache_get"]
    /\ fs' = [fs EXCEPT ![r] = [NoFs EXCEPT !.fn = fn, !.key = key]]
    /\ UNCHANGED <<req, last_done>>

\* fetch_quote or fetch_sr_levels returns (data, error) to webhook(); res0 is
\* res[r] with what the returning call has recorded
FetchReturn(r, data, error, res0) ==
    IF fs[r].fn = "fetch_quote"
    THEN IF error # "" \/ data.kind = "None"
         THEN Reply(r, rl[r], [res0 EXCEPT !.error = error],
                    << <<IF error # "" THEN error
                         ELSE IF req[r].command = "ihsg"
                              THEN "Data IHSG tidak tersedia."
                              ELSE "Data tidak tersedia.">> >>, "error")
         ELSE IF req[r].command = "ihsg"
         THEN ReplyQuote(r, [res0 EXCEPT !.data = data],
                         format_quote_text(IHSG_SYMBOL, IDX, data,
                                           <<"IHSG (IDX)">>, NoData))
         ELSE /\ StartFetch(r, "fetch_sr_levels", SrKey(IDX, req[r].symbol))
              /\ res' = [res EXCEPT ![r] = [res0 EXCEPT !.data = data]]
              /\ rl' = rl
    ELSE LET sr_data == IF error # "" THEN NoData ELSE data
         IN  ReplyQuote(r, [res0 EXCEPT !.sr_data = sr_data, !.sr_error = error],
                        format_quote_text(req[r].symbol, IDX, res[r].data,
                                          <<>>, sr_data))

\* res[r] with the outcome of the cache lookup of the running fetch
CacheOutcome(r, how) ==
    IF fs[r].fn = "fetch_quote"
    THEN [res[r] EXCEPT !.q_cache = how]
    ELSE [res[r] EXCEPT !.sr_cache = how]

\* ------------------------------------------------------------------------
\* webhook(), one request
\* ------------------------------------------------------------------------
\* one request at a time: no other request is being served
Alone(r) == \A o \in Requests \ {r} : pc[o] \in {"idle", "done"}
Scheduled(r) == r <= env.n /\ (env.seq => Alone(r))

\* A request arrives, some ticks after the latest arrival: payload,
\* extract_message, the first two returns, parse_command
Webhook(r) ==
    /\ pc[r] = "idle"
    /\ Scheduled(r)
    /\ IF r = 1 THEN TRUE ELSE pc[r - 1] # "idle"
    /\ \E d \in 0..(MaxTime - clock) : clock' = clock + d
    /\ \E text \in env.texts, chat_id \in env.chats \cup {""}, from_me \in env.from_me :
         LET cmd == parse_command(text)
             reqv == [chat |-> chat_id, text |-> text, command |-> cmd.command,
                      symbol |-> cmd.symbol,
                      before |-> [rate_limit |-> rate_limit, cache |-> cache,
                                  tv_client |-> tv_client,
                                  tv_client_error |-> tv_client_error]]
         IN  IF text = <<>> \/ chat_id = "" \/ from_me
             THEN NoReply(r, NoReq, NoRl, NoRes, "ignored")
             ELSE IF cmd.command = "None"
             THEN NoReply(r, reqv, NoRl, NoRes, "ignored")
             ELSE /\ pc' = [pc EXCEPT ![r] = "rate_limit_ok"]
                  /\ req' = [req EXCEPT ![r] = reqv]
                  /\ UNCHANGED <<rl, fs, res, last_done>>
    /\ UNCHANGED <<env, globals>>

\* int(RATE_LIMIT_SECONDS - (now - last)) for elapsed ticks below the window
Remaining(elapsed) == (RateLimitTicks - elapsed) \div TicksPerSecond

\* a comparison that also denies at the end of the window
InWindowIncl(last, now) == last # <<>> /\ last[1] # 0 /\ now - last[1] <= RateLimitTicks
\* last and (now - last) < RATE_LIMIT_SECONDS; last is <<>> for None
InWindow(last, now) == last # <<>> /\ last[1] # 0 /\ now - last[1] < RateLimitTicks

\* a denial that records the instant of the denied call
DeniedTouch(table, chat_id, now) == DictSet(table, chat_id, now)
\* the table after "return False, max(1, remaining)": the return comes before
\* the assignment to rate_limit[chat_id]
Denied(table, chat_id, now) == table

\* rate_limit_ok up to its first return: now, last, the comparison
RateLimitCheck(r) ==
    /\ pc[r] = "rate_limit_ok"
    /\ Scheduled(r)
    /\ LET now == clock
           chat_id == req[r].chat
           last == IF chat_id \in DOMAIN rate_limit THEN <<rate_limit[chat_id]>> ELSE <<>>
       IN  IF InWindow(last, now)
           THEN LET remaining == Max(1, Remaining(now - last[1]))
                IN  /\ Reply(r, [now |-> now, last |-> last, ok |-> "False",
                                 remaining |-> remaining],
                             res[r], RateLimitText(remaining), "rate_limited")
                    /\ rate_limit' = Denied(rate_limit, chat_id, now)
           ELSE /\ rl' = [rl EXCEPT ![r] = [now |-> now, last |-> last,
                                            ok |-> "None", remaining |-> 0]]
                /\ pc' = [pc EXCEPT ![r] = "rate_limit_set"]
                /\ rate_limit' = rate_limit
                /\ UNCHANGED <<req, fs, res, last_done>>
    /\ UNCHANGED <<env, clock, cache, tv_client, tv_client_error, constructs,
                   ctor_failed, accepted, last_set>>

\* rate_limit[chat_id] = now; return True, 0; then the dispatch on command
RateLimitSet(r) ==
    /\ pc[r] = "rate_limit_set"
    /\ Scheduled(r)
    /\ rate_limit' = DictSet(rate_limit, req[r].chat, rl[r].now)
    /\ accepted' = [accepted EXCEPT ![req[r].chat] = Append(@, rl[r].now)]
    /\ LET rlv == [rl[r] EXCEPT !.ok = "True"]
       IN  CASE req[r].command = "help" ->
                  Reply(r, rlv, res[r], help_text, "ok")
             [] req[r].command = "ihsg" ->
                  /\ StartFetch(r, "fetch_quote", QuoteKey(IDX, IHSG_SYMBOL, env.interval))
                  /\ rl' = [rl EXCEPT ![r] = rlv]
                  /\ res' = res
             [] req[r].command = "quote" /\ req[r].symbol # <<>> ->
                  /\ StartFetch(r, "fetch_quote", QuoteKey(IDX, req[r].symbol, env.interval))
                  /\ rl' = [rl EXCEPT ![r] = rlv]
                  /\ res' = res
             [] OTHER ->
                  NoReply(r, req[r], rlv, res[r], "ignored")
    /\ UNCHANGED <<env, clock, cache, tv_client, tv_client_error, constructs,
                   ctor_failed, last_set>>

\* cache_get: entry = cache.get(key); if not entry: return None
CacheGet(r) ==
    /\ pc[r] = "cache_get"
    /\ Scheduled(r)
    /\ IF fs[r].key \in DOMAIN cache
       THEN /\ fs' = [fs EXCEPT ![r].entry = <<cache[fs[r].key]>>]
            /\ pc' = [pc EXCEPT ![r] = "cache_expiry"]
            /\ res' = res
       ELSE /\ fs' = fs
            /\ pc' = [pc EXCEPT ![r] = "get_tv_client"]
            /\ res' = [res EXCEPT ![r] = CacheOutcome(r, "absent")]
    /\ UNCHANGED <<env, clock, globals, req, rl, last_done>>

\* an expiry test that already fails at the age of the TTL
ExpiredAtTtl(now, cached_at) == now - cached_at >= CacheTtlTicks
\* time.time() - cached_at > CACHE_TTL_SECONDS
Expired(now, cached_at) == now - cached_at > CacheTtlTicks

\* cache_get: the expiry test, cache.pop(key, None), the return; and the
\* "if cached: return cached, None" of the caller
CacheExpiry(r) ==
    /\ pc[r] = "cache_expiry"
    /\ Scheduled(r)
    /\ LET entry == fs[r].entry[1]
       IN  IF Expired(clock, entry.at)
           THEN /\ cache' = DictPop(cache, fs[r].key)
                /\ pc' = [pc EXCEPT ![r] = "get_tv_client"]
                /\ res' = [res EXCEPT ![r] = CacheOutcome(r, "expired")]
                /\ UNCHANGED <<req, rl, fs, last_done>>
           ELSE /\ cache' = cache
                /\ FetchReturn(r, entry.data, "", CacheOutcome(r, "hit"))
    /\ UNCHANGED <<env, clock, rate_limit, tv_client, tv_client_error, constructs,
                   ctor_failed, accepted, last_set>>

LoginError ==
    [fetch_quote |-> "Gagal login ke TradingView. Periksa kredensial.",
     fetch_sr_levels |-> "Gagal login ke TradingView."]

\* get_tv_client: the two early returns
GetTvClient(r) ==
    /\ pc[r] = "get_tv_client"
    /\ Scheduled(r)
    /\ IF tv_client # <<>>
       THEN /\ fs' = [fs EXCEPT ![r].tv = tv_client]
            /\ pc' = [pc EXCEPT ![r] = "get_hist"]
            /\ UNCHANGED <<req, rl, res, last_done>>
       ELSE IF tv_client_error # <<>> /\ tv_client_error[1] # ""
       THEN FetchReturn(r, NoData, LoginError[fs[r].fn], res[r])
       ELSE /\ pc' = [pc EXCEPT ![r] = "TvDatafeed"]
            /\ UNCHANGED <<req, rl, fs, res, last_done>>
    /\ UNCHANGED <<env, clock, globals>>

\* get_tv_client: the try block, tv_client = TvDatafeed(...) or the handler
TvDatafeed(r) ==
    /\ pc[r] = "TvDatafeed"
    /\ Scheduled(r)
    /\ constructs' = constructs + 1
    /\ \E c \in env.ctor :
         IF c.ok
         THEN /\ tv_client' = <<constructs + 1>>
              /\ fs' = [fs EXCEPT ![r].tv = <<constructs + 1>>]
              /\ pc' = [pc EXCEPT ![r] = "get_hist"]
              /\ UNCHANGED <<tv_client_error, ctor_failed, req, rl, res, last_done>>
         ELSE /\ tv_client_error' = <<c.msg>>
              /\ ctor_failed' = TRUE
              /\ tv_client' = tv_client
              /\ FetchReturn(r, NoData, LoginError[fs[r].fn], res[r])
    /\ UNCHANGED <<env, clock, rate_limit, cache, accepted, last_set>>

\* cache_set(key, value)
CacheSet(key, value) ==
    /\ cache' = DictSet(cache, key, [at |-> clock, data |-> value])
    /\ last_set' = DictSet(last_set, key, [at |-> clock, data |-> value])

\* a fetch that stores its error message under its key
FailedFetchCached(key, error) == CacheSet(key, [kind |-> "error", error |-> error])
\* "return None, error" of fetch_quote and fetch_sr_levels after get_hist:
\* the return comes without a call of cache_set
FailedFetch(key, error) == UNCHANGED <<cache, last_set>>

\* tv.get_hist(n_bars=n) answers with at most n rows
Hist(n) == { h \in env.hist : Len(h.bars) <= n }

\* tv.get_hist(...) and the rest of fetch_quote
GetHistQuote(r) ==
    /\ pc[r] = "get_hist"
    /\ Scheduled(r)
    /\ fs[r].fn = "fetch_quote"
    /\ \E h \in Hist(TV_BARS) :
         IF h.raises
         THEN /\ FetchReturn(r, NoData, "Gagal mengambil data. Coba lagi nanti.", res[r])
              /\ FailedFetch(fs[r].key, "Gagal mengambil data. Coba lagi nanti.")
         ELSE IF h.bars = <<>>
         THEN /\ FetchReturn(r, NoData, "Data tidak tersedia untuk simbol tersebut.",
                             res[r])
              /\ FailedFetch(fs[r].key, "Data tidak tersedia untuk simbol tersebut.")
         ELSE LET symbol == IF req[r].command = "ihsg" THEN IHSG_SYMBOL
                            ELSE req[r].symbol
                  data == QuoteData(h.bars, Query("quote", IDX, symbol))
              IN  /\ CacheSet(fs[r].key, data)
                  /\ FetchReturn(r, data, "", res[r])
    /\ UNCHANGED <<env, clock, rate_limit, tv_client, tv_client_error, constructs,
                   ctor_failed, accepted>>

\* tv.get_hist(...) and the rest of fetch_sr_levels
GetHistSr(r) ==
    /\ pc[r] = "get_hist"
    /\ Scheduled(r)
    /\ fs[r].fn = "fetch_sr_levels"
    /\ \E h \in Hist(SR_BARS) :
         IF h.raises
         THEN /\ FetchReturn(r, NoData, "Gagal mengambil data SR.", res[r])
              /\ FailedFetch(fs[r].key, "Gagal mengambil data SR.")
         ELSE IF h.bars = <<>>
         THEN /\ FetchReturn(r, NoData, "Data SR tidak tersedia.", res[r])
              /\ FailedFetch(fs[r].key, "Data SR tidak tersedia.")
         ELSE IF SrInvalid(h.bars)
         THEN /\ FetchReturn(r, NoData, "Data SR tidak valid.",
                             [res[r] EXCEPT !.sr_bars = h.bars])
              /\ FailedFetch(fs[r].key, "Data SR tidak valid.")
         ELSE LET data == SrData(h.bars, Query("sr", IDX, req[r].symbol))
              IN  /\ CacheSet(fs[r].key, data)
                  /\ FetchReturn(r, data, "", [res[r] EXCEPT !.sr_bars = h.bars])
    /\ UNCHANGED <<env, clock, rate_limit, tv_client, tv_client_error, constructs,
                   ctor_failed, accepted>>

Next ==
    \E r \in Requests :
        \/ Webhook(r)
        \/ RateLimitCheck(r)
        \/ RateLimitSet(r)
        \/ CacheGet(r)
        \/ CacheExpiry(r)
        \/ GetTvClient(r)
        \/ TvDatafeed(r)
        \/ GetHistQuote(r)
        \/ GetHistSr(r)

\* concurrent requests
Spec == Init /\ [][Next]_vars
\* one request at a time
RateSpec == InitEnv(RateEnv) /\ [][Next]_vars
CacheSpec == InitEnv(CacheEnv) /\ [][Next]_vars
PathSpec == InitEnv(PathEnv) /\ [][Next]_vars
\* one request at a time, in a process started with any of the intervals
ConfigSpec == (\E i \in Intervals : InitEnv(ConfigEnv(i))) /\ [][Next]_vars
SrSpec == InitEnv(SrEnv) /\ [][Next]_vars
ReplySpec == InitEnv(ReplyEnv) /\ [][Next]_vars
ParseSpec == InitEnv(ParseEnv) /\ [][Next]_vars

\* ------------------------------------------------------------------------
\* Properties
\* ------------------------------------------------------------------------
\* the symbol a request queries
SymbolOf(reqv) == IF reqv.command = "ihsg" THEN IHSG_SYMBOL ELSE reqv.symbol

Abs(x) == IF x < 0 THEN -x ELSE x

\* C1: of the requests of one conversation that run rate_limit_ok within one
\* rate-limit window, at most one is allowed, whatever the interleaving: any
\* two instants at which rate_limit_ok allowed the same conversation are at
\* least RATE_LIMIT_SECONDS apart.
C1_OneAllowedPerWindow ==
    \A c \in Chats : \A i, j \in 1..Len(accepted[c]) :
        i < j => Abs(accepted[c][j] - accepted[c][i]) >= RateLimitTicks

\* C2: with one request at a time, rate_limit_ok allows a call exactly when
\* the conversation was never allowed before or its latest allowed call is
\* at least RATE_LIMIT_SECONDS old; every call inside the window is denied.
C2_WindowRoundTrip ==
    [][\A r \in Requests :
         (pc[r] = "rate_limit_ok" /\ pc'[r] # "rate_limit_ok") =>
            LET a == accepted[req[r].chat]
            IN  (pc'[r] = "rate_limit_set")
                <=> (a = <<>> \/ clock - a[Len(a)] >= RateLimitTicks)]_vars

\* a conversation allowed, denied inside the window, and allowed again at
\* the very end of the window
C2_Witness ==
    \E c \in Chats :
        /\ Len(accepted[c]) = 2
        /\ accepted[c][2] - accepted[c][1] = RateLimitTicks
        /\ last_done.status = "rate_limited"
        /\ last_done.req.chat = c
        /\ last_done.rl.last = <<accepted[c][1]>>

\* C3: a request that returns has called send_text exactly once, unless it
\* ends as Ignored, and then it has not called it.
C3_OneReply ==
    last_done.status # "None" =>
        last_done.sends = (IF last_done.status = "ignored" THEN 0 ELSE 1)

\* C4: a Help request is exempt from the rate limiter: it is never answered
\* with the rate-limit notice and always receives the help text.
C4_HelpExempt ==
    last_done.req.command = "help" =>
        /\ last_done.status = "ok"
        /\ last_done.text = SentText(help_text)

\* C5: when a symbol request has passed the rate limiter and fetch_quote has
\* succeeded, a failure of fetch_sr_levels leaves the quote reply as it is:
\* one reply, made of the quote block without the support/resistance block,
\* and status ok.
C5_SrFailureHarmless ==
    (/\ last_done.req.command = "quote"
     /\ last_done.rl.ok = "True"
     /\ last_done.res.data.kind = "quote"
     /\ last_done.res.sr_error # "") =>
        /\ last_done.sends = 1
        /\ last_done.status = "ok"
        /\ LET f == format_quote_text(last_done.req.symbol, IDX, last_done.res.data,
                                      <<>>, NoData)
           IN  ~f.raises /\ last_done.text = SentText(f.text)

\* what request r holds after a step: the locals of webhook(), or what it
\* left behind when the step returned from webhook()
ResAfter(r) == IF pc'[r] = "done" THEN last_done'.res ELSE res'[r]

\* the step ends a call of cache_get by request r
CacheGetReturns(r) ==
    /\ pc[r] \in {"cache_get", "cache_expiry"}
    /\ pc'[r] \notin {"cache_get", "cache_expiry"}

\* C6: with one request at a time, a cache_get(key) that comes at most
\* CACHE_TTL_SECONDS after the latest cache_set(key, v) returns v and leaves
\* the entry in place; a cache_get(key) that comes later, or for a key never
\* set, returns a miss and leaves no entry under the key.
C6_CacheRoundTrip ==
    [][\A r \in Requests :
         CacheGetReturns(r) =>
            LET k == fs[r].key
                quote == fs[r].fn = "fetch_quote"
                how == IF quote THEN ResAfter(r).q_cache ELSE ResAfter(r).sr_cache
                got == IF quote THEN ResAfter(r).data ELSE ResAfter(r).sr_data
            IN  IF k \in DOMAIN last_set /\ clock - last_set[k].at <= CacheTtlTicks
                THEN /\ how = "hit"
                     /\ got = last_set[k].data
                     /\ k \in DOMAIN cache' /\ cache'[k] = last_set[k]
                ELSE /\ how \in {"absent", "expired"}
                     /\ k \notin DOMAIN cache']_vars

\* the request before had a hit on an entry as old as the TTL, and this
\* request has found the entry expired and has removed it
C6_Witness ==
    \E r \in Requests :
        /\ pc[r] = "get_tv_client"
        /\ res[r].q_cache = "expired"
        /\ fs[r].key \in DOMAIN last_set /\ fs[r].key \notin DOMAIN cache
        /\ last_done.res.q_cache = "hit"
        /\ last_done.rl.now - last_set[fs[r].key].at = CacheTtlTicks

\* C7: once a call of TvDatafeed(...) has raised, no later call of
\* get_tv_client constructs again.
C7_StickyFailure == [][ctor_failed => constructs' = constructs]_vars

\* ceil of x ticks in seconds
CeilSeconds(x) == (x + TicksPerSecond - 1) \div TicksPerSecond

\* C8: a denied request is told to wait max(1, ceil(RATE_LIMIT_SECONDS -
\* (now - last))) seconds.
C8_RemainingIsCeil ==
    last_done.status = "rate_limited" =>
        LET elapsed == last_done.rl.now - last_done.rl.last[1]
            wait == Max(1, CeilSeconds(RateLimitTicks - elapsed))
        IN  /\ last_done.rl.remaining = wait
            /\ last_done.text = SentText(RateLimitText(wait))

\* C9: whatever the upstream does, no exception leaves webhook(); and when
\* fetch_quote fails, the one reply is its message and fetch_sr_levels is
\* not called.
C9_NoEscape ==
    /\ last_done.status # "exception"
    /\ last_done.res.error # "" =>
          /\ last_done.sends = 1
          /\ last_done.text = SentText(<< <<last_done.res.error>> >>)
          /\ last_done.res.sr_cache = "None"

\* the payloads a request holds are results of its own queries
OwnPayloads(reqv, resv) ==
    /\ resv.data.kind # "None" => resv.data.q = Query("quote", IDX, SymbolOf(reqv))
    /\ resv.sr_data.kind # "None" => resv.sr_data.q = Query("sr", IDX, SymbolOf(reqv))

\* C10: different queries have different cache keys, so cache_get never
\* returns a result stored for another query: the quote a request holds is a
\* result of its quote query and the levels it holds are a result of its
\* pivot query (fetch_quote returns no levels, fetch_sr_levels no quote).
C10_KeyPerQuery ==
    /\ \A r \in Requests : OwnPayloads(req[r], res[r])
    /\ OwnPayloads(last_done.req, last_done.res)

\* x > y on floats: false when one of them is inf or nan on both sides
FGt(x, y) == IsNum(x) /\ IsNum(y) /\ x.v3 > y.v3

\* (high + low + close) / 3 of a row of the upstream frame
PivotOf(bar) ==
    LET high == safe_float(bar.high)
        low == safe_float(bar.low)
        close == safe_float(bar.close)
    IN  IF IsNum(high) /\ IsNum(low) /\ IsNum(close)
        THEN Num3((high.v3 + low.v3 + close.v3) \div 3)
        ELSE NonFinite

\* C11: whenever fetch_sr_levels computes levels from a bar with high > low,
\* whatever its close, the levels satisfy r1 > pivot > s1 with
\* pivot = (high + low + close) / 3.
C11_PivotBetween ==
    LET bars == last_done.res.sr_bars
        sr == last_done.res.sr_data
        bar == bars[SrIndex(bars)]
    IN  (bars # <<>> /\ sr.kind = "sr"
         /\ FGt(safe_float(bar.high), safe_float(bar.low))) =>
            /\ FGt(sr.r1, PivotOf(bar))
            /\ FGt(PivotOf(bar), sr.s1)

\* a cell of the frame that holds a number
Usable(cell) == cell.k = "num"

\* C12: on a cache miss answered with a frame that is not empty,
\* fetch_sr_levels reads the second-to-last row when there are at least two
\* rows and the last row otherwise; when that row lacks a usable high, low
\* or close or has high equal to low it returns the invalid-bar error and
\* leaves the cache as it is; otherwise it returns levels computed from
\* that row.
C12_SelectedBar ==
    [][\A r \in Requests :
         (pc[r] = "get_hist" /\ fs[r].fn = "fetch_sr_levels" /\ pc'[r] = "done"
          /\ last_done'.res.sr_bars # <<>>) =>
            LET bars == last_done'.res.sr_bars
                n == Len(bars)
                i == IF n >= 2 THEN n - 1 ELSE n
                bar == bars[i]
                bad == \/ ~Usable(bar.high) \/ ~Usable(bar.low) \/ ~Usable(bar.close)
                       \/ bar.high = bar.low
                sum == bar.high.v + bar.low.v + bar.close.v
                sr == last_done'.res.sr_data
            IN  IF bad
                THEN /\ last_done'.res.sr_error = "Data SR tidak valid."
                     /\ sr = NoData
                     /\ cache' = cache
                ELSE /\ last_done'.res.sr_error = ""
                     /\ sr.kind = "sr"
                     /\ sr.time = format_time_value(i)
                     /\ sr.r1 = Num3(2 * sum - 3 * bar.low.v)
                     /\ sr.s1 = Num3(2 * sum - 3 * bar.high.v)
                     /\ fs[r].key \in DOMAIN cache' /\ cache'[fs[r].key].data = sr]_vars

\* the number of lines of a text that hold the footer
RECURSIVE FooterLines(_)
FooterLines(t) ==
    IF t = <<>> THEN 0
    ELSE (IF \E i \in 1..Len(Head(t)) : Head(t)[i] = FOOTER THEN 1 ELSE 0)
         + FooterLines(Tail(t))

\* C13: every text send_text hands to the gateway holds the footer exactly
\* once, and the footer is its last line.
C13_FooterOnce ==
    last_done.sends = 1 =>
        /\ FooterLines(last_done.text) = 1
        /\ last_done.text[Len(last_done.text)] = <<FOOTER>>

\* a symbol quote with its support/resistance block has been sent: the text
\* format_quote_text built ended with the footer already
C13_Witness ==
    /\ last_done.sends = 1
    /\ last_done.status = "ok"
    /\ last_done.req.command = "quote"
    /\ last_done.res.sr_data.kind = "sr"
    /\ Len(last_done.text) > 15

\* the status webhook() returns for what the request found
StatusOf(rlv, resv) ==
    IF rlv.ok = "False" THEN "rate_limited"
    ELSE IF resv.error # "" THEN "error"
    ELSE "ok"

\* C14: when the POST of send_text fails (a status of 400 or more, or an
\* exception), the request has posted once, returns the status it returns
\* when the POST succeeds, and leaves the rate-limit table and the cache as
\* a request with a successful POST does: the accepted instant stays
\* recorded and the fetched quote stays cached.
C14_SendFailureSwallowed ==
    [][\A r \in Requests :
         (pc[r] # "done" /\ pc'[r] = "done"
          /\ last_done'.gateway \in {"http_error", "exception"}) =>
            LET d == last_done'
            IN  /\ d.sends = 1
                /\ d.status = StatusOf(d.rl, d.res)
                /\ d.rl.ok = "True" => /\ d.req.chat \in DOMAIN rate_limit'
                                       /\ rate_limit'[d.req.chat] = d.rl.now
                /\ d.rl.ok = "False" => rate_limit' = rate_limit
                /\ d.res.q_cache \in {"absent", "expired"} /\ d.res.data.kind = "quote" =>
                       LET k == QuoteKey(IDX, SymbolOf(d.req), env.interval)
                       IN  k \in DOMAIN cache' /\ cache'[k].data = d.res.data]_vars

\* the POST of a symbol quote that was fetched and cached has raised, and
\* the request has returned ok
C14_Witness ==
    /\ last_done.gateway = "exception"
    /\ last_done.status = "ok"
    /\ last_done.req.command = "quote"
    /\ last_done.res.q_cache = "absent"
    /\ last_done.sends = 1

\* the character class [a-z0-9.]
IsTokenChar(c) == c \in LowerLetters \cup DigitChars \cup {"."}

\* length of the longest prefix of s made of characters of [a-z0-9.]
RECURSIVE TokenRun(_)
TokenRun(s) == IF s # <<>> /\ IsTokenChar(Head(s)) THEN 1 + TokenRun(Tail(s)) ELSE 0

\* the command the rules give for a text: trimmed and case-folded, !help
\* first, then !ihsg at a word boundary, then $ and a token of [a-z0-9.]
RuleCommand(text) ==
    LET t == Lower(Strip(text))
        n == IF t = <<>> THEN 0 ELSE TokenRun(Tail(t))
        token == Upper(SubSeq(t, 2, n + 1))
    IN  IF StartsWith(t, <<"!", "h", "e", "l", "p">>) THEN [command |-> "help", symbol |-> <<>>]
        ELSE IF StartsWith(t, <<"!", "i", "h", "s", "g">>)
                /\ (Len(t) = 5 \/ t[6] \notin LowerLetters \cup DigitChars \cup {"_"})
        THEN [command |-> "ihsg", symbol |-> <<>>]
        ELSE IF t # <<>> /\ t[1] = "$" /\ n >= 1
        THEN [command |-> "quote",
              symbol |-> IF Len(token) >= 3 /\ SubSeq(token, Len(token) - 2, Len(token)) = <<".", "J", "K">>
                         THEN SubSeq(token, 1, Len(token) - 3) ELSE token]
        ELSE [command |-> "None", symbol |-> <<>>]

\* a request record holds what the rules give for its text
ParsedByRules(reqv) ==
    reqv.text # <<>> =>
        [command |-> reqv.command, symbol |-> reqv.symbol] = RuleCommand(reqv.text)

\* C15: parse_command gives every text the command of the rules: Help for
\* the prefix !help, else IndexQuote for !ihsg at a word boundary, else
\* SymbolQuote for $ and a token of one or more characters of [a-z0-9.],
\* upper-cased and without a trailing .JK, else None.
C15_ParseRules ==
    /\ \A r \in Requests : ParsedByRules(req[r])
    /\ ParsedByRules(last_done.req)

\* the module globals as request r found them when it arrived
Before(r) ==
    IF pc[r] = "idle"
    THEN [rate_limit |-> rate_limit, cache |-> cache, tv_client |-> tv_client,
          tv_client_error |-> tv_client_error]
    ELSE req[r].before

\* C16: a request that ends as Ignored has sent no reply and leaves the
\* rate-limit table, the cache and the client state as they were when it
\* arrived.
C16_IgnoredNoEffect ==
    [][\A r \in Requests :
         (pc[r] # "done" /\ pc'[r] = "done" /\ last_done'.status = "ignored") =>
            /\ last_done'.sends = 0
            /\ Before(r) = [rate_limit |-> rate_limit', cache |-> cache',
                            tv_client |-> tv_client',
                            tv_client_error |-> tv_client_error']]_vars

\* C17: a denied call of rate_limit_ok leaves the rate-limit table as it is:
\* the record of a conversation is always the instant of its latest allowed
\* call, however many calls were denied since, and a call for one
\* conversation never changes the record of another.
C17_DeniedKeepsTable ==
    [][/\ \A c \in Chats :
            IF accepted'[c] = <<>> THEN c \notin DOMAIN rate_limit'
            ELSE c \in DOMAIN rate_limit'
                 /\ rate_limit'[c] = accepted'[c][Len(accepted'[c])]
       /\ \A r \in Requests :
            /\ (pc[r] = "rate_limit_ok" /\ pc'[r] = "done") => rate_limit' = rate_limit
            /\ pc[r] \in {"rate_limit_ok", "rate_limit_set"} =>
                  \A c \in DOMAIN rate_limit \ {req[r].chat} :
                      c \in DOMAIN rate_limit' /\ rate_limit'[c] = rate_limit[c]]_vars

\* two conversations have been allowed, and one of them has then been
\* denied at a later instant: its record is still the allowed instant
C17_Witness ==
    /\ DOMAIN rate_limit = Chats
    /\ last_done.status = "rate_limited"
    /\ last_done.rl.now > rate_limit[last_done.req.chat]
    /\ rate_limit[last_done.req.chat] = last_done.rl.last[1]
    /\ \A r \in Requests : r <= env.n => pc[r] = "done"

\* the cache key of a query
KeyOf(q) ==
    IF q.kind = "quote" THEN QuoteKey(q.exchange, q.symbol, env.interval)
    ELSE SrKey(q.exchange, q.symbol)

\* the step returns an error from the fetch request r is running
FetchFails(r) ==
    /\ pc[r] \in {"get_tv_client", "TvDatafeed", "get_hist"}
    /\ IF fs[r].fn = "fetch_quote" THEN ResAfter(r).error # ""
       ELSE ResAfter(r).sr_error # ""

\* C18: only successful results are cached: every cache entry holds a quote
\* or a set of levels computed by a fetch for the query of the entry's own
\* key; a fetch that ends in an error writes nothing, and its key has no
\* entry afterwards, so that the next request for it asks upstream again.
C18_OnlySuccessCached ==
    [][/\ \A k \in DOMAIN cache' :
            /\ cache'[k].data.kind \in {"quote", "sr"}
            /\ cache'[k].data.kind = cache'[k].data.q.kind
            /\ KeyOf(cache'[k].data.q) = k
       /\ \A r \in Requests :
            FetchFails(r) => cache' = cache /\ fs[r].key \notin DOMAIN cache']_vars

\* the quote of a symbol is cached, its pivot fetch has ended with the
\* invalid-bar error and has left no entry
C18_Witness ==
    /\ last_done.res.sr_error = "Data SR tidak valid."
    /\ last_done.res.q_cache = "absent"
    /\ KeyOf(Query("quote", IDX, last_done.req.symbol)) \in DOMAIN cache
    /\ KeyOf(Query("sr", IDX, last_done.req.symbol)) \notin DOMAIN cache

\* C19: the client is a singleton under every interleaving: once a call of
\* TvDatafeed(...) has succeeded, the stored client never changes, no
\* request calls TvDatafeed(...) again, and every request that holds a
\* client holds the stored one.
C19_Singleton ==
    [][/\ tv_client # <<>> => (tv_client' = tv_client /\ constructs' = constructs)
       /\ \A r \in Requests : fs'[r].tv # <<>> => fs'[r].tv = tv_client']_vars

====
